---- MODULE Spec2Model ----
(***************************************************************************)
(* The sample programs of the Go/MongoDB quick start series as one state   *)
(* machine.  One run executes one sample (variable sample) against the     *)
(* database service; main's position is pc, the background goroutine of    *)
(* the change-stream samples is bg.  Every call to the driver may return   *)
(* an error, which the code handles (or ignores) as written in the source. *)
(***************************************************************************)
EXTENDS Integers, Sequences, FiniteSets, TLC

\* ------------------------------------------------------------------ bounds
MaxId == 9
MaxOps == 3
MaxRetries == 1
MaxRuns == 2

\* --------------------------------------------------------- program constants
FilterDuration == 25
SortGtDuration == 24
GtDuration == 30
MinDuration == 2
FirstDuration == 15
ManualSecondDuration == 1
WithTxSecondDuration == 2
HardCodedPodcastId == 2
UpdateId == 1
AggregationPodcastId == 1

Ids == 1..MaxId

\* ------------------------------------------------------------ error values
Nil == "nil"
NetErr == "network error"
DeadlineExceeded == "context deadline exceeded"
ValidationErr == "document failed validation"
NamespaceNotFound == "ns not found"
ErrNoDocuments == "mongo: no documents in result"
DecodeErr == "decode error"
AbortErr == "abort error"
TxStartErr == "cannot start transaction"
NilDeref == "invalid memory address or nil pointer dereference"
Unset == "unset"

\* ------------------------------------------------------------- documents
PolyglotTitle == "The Polyglot Developer Podcast"

PodcastDoc ==
    [title |-> PolyglotTitle, author |-> "Nic Raboy",
     tags |-> <<"development", "programming", "coding">>]

EpisodeGraphQL(pid) ==
    [podcast |-> pid, title |-> "GraphQL for API Development",
     description |-> "Learn about GraphQL", duration |-> 25]

EpisodePWA(pid) ==
    [podcast |-> pid, title |-> "Progressive Web Application Development",
     description |-> "Learn about PWA development", duration |-> 32]

TxEpisode1 == [title |-> "A Transaction Episode for the Ages", duration |-> FirstDuration]

TxEpisode2(d) == [title |-> "Transactions for All", duration |-> d]

\* Podcast{Title: ..., Author: ...}: the empty Tags are left out (omitempty)
TxPodcast == [title |-> "Transactions for All", author |-> "Nic Raboy"]

\* the driver adds the generated _id to a document that has none
WithID(doc, id) ==
    [k \in (DOMAIN doc) \cup {"_id"} |-> IF k = "_id" THEN id ELSE doc[k]]

IdsOf(coll) == {d["_id"] : d \in coll}

\* faulty variant: an id generator that repeats an id
NewObjectIDDup(used) == 1

\* a generated ObjectID differs from every id already in use
NewObjectID(used) ==
    CHOOSE i \in Ids : i \notin used /\ \A j \in Ids \ used : i <= j

\* an equality filter (bson.M{"k": v}): the field exists and has the value
Matches(doc, filter) ==
    \A k \in DOMAIN filter : k \in DOMAIN doc /\ doc[k] = filter[k]

Find(coll, filter) == {d \in coll : Matches(d, filter)}

\* the $jsonSchema rule on episodes: duration, when present, is at least 2
Validates(doc) == "duration" \in DOMAIN doc => doc["duration"] >= MinDuration

\* -------------------------------------------------------------------- state
VARIABLES
    sample,       \* which sample program this run executes
    runs,         \* how many sample programs have been started
    ctxExpired,   \* whether the deadline of ctx (WithTimeout, 10 s) has passed
    episodes0,    \* the episodes that were visible when this run started
    pc,           \* main's position
    exit,         \* "running", "ok" (main returned), "fatal" (log.Fatal), "panic"
    exitErr,      \* the error value the process ended with
    err,          \* main's err variable
    out,          \* what was printed to standard output, in order
    conn,         \* the client connection: "none", "connected", "disconnected"
    podcasts,     \* visible documents of quickstart.podcasts
    episodes,     \* visible documents of quickstart.episodes
    exists,       \* the collections that exist on the server
    validator,    \* whether the $jsonSchema rule is installed on episodes
    failed,       \* the first error a driver call returned (Nil when none did)
    lateCalls,    \* driver calls issued after a driver call had returned an error
    lastReply,    \* the server's reply to the latest driver call
    insertedID,   \* podcastResult.InsertedID
    cursor,       \* the open cursor: documents still to deliver, error, current
    bg,           \* the background goroutine's position
    mainWG,       \* the counter of main's waitGroup
    bgWG,         \* the counter of the goroutine's waitGroup parameter
    stream,       \* the change stream: feed alive, queued events, error, current event, Close calls
    oplog,        \* the writes other clients made to episodes since Watch
    spawned,      \* how many goroutines main has launched
    streamAcc,    \* the tasks that used the stream after the goroutine was launched
    ctxCancelled, \* whether routineCtx has been cancelled
    loopExit,     \* why the iteration loop was left
    bgPanic,      \* the value the goroutine is panicking with (Nil when it is not)
    session,      \* the logical session: "none", "active", "ended"
    txn,          \* the session's transaction state
    txBuf,        \* documents written inside the open transaction
    bodyErr,      \* the error the transaction body returned
    attempts      \* how many times WithTransaction ran the body

runVars == <<runs, ctxExpired, episodes0>>
procVars == <<sample, runVars, pc, exit, exitErr, err, out, conn>>
dbVars == <<podcasts, episodes, exists, validator>>
trackVars == <<failed, lateCalls, lastReply>>
curVars == <<insertedID, cursor>>
csVars == <<bg, mainWG, bgWG, stream, oplog, spawned, streamAcc, ctxCancelled, loopExit, bgPanic>>
txVars == <<session, txn, txBuf, bodyErr, attempts>>
vars == <<procVars, dbVars, trackVars, curVars, csVars, txVars>>

Colls == {"podcasts", "episodes"}

\* the samples that end with log.Fatal on an error; the others panic
LogFatalSamples == {"creating1", "creating2", "retrieving", "deleting", "updating"}
ChangeStreamSamples == {"changeStreamCtx", "changeStream"}
TxSamples == {"txManual", "txWith"}
Samples ==
    LogFatalSamples \cup ChangeStreamSamples \cup TxSamples \cup {"aggregation", "txPodcast"}

\* ------------------------------------------------------- initial contents
Pod1 == [_id |-> 1, title |-> PolyglotTitle, author |-> "Nicolas Raboy"]
Pod2 == [_id |-> HardCodedPodcastId, title |-> "The Nic Raboy Show", author |-> "Nicolas Raboy"]
Pod1Nic == WithID(PodcastDoc, UpdateId)
Pod6 == [_id |-> 6, title |-> "MongoDB Podcast", author |-> "Nic Raboy", website |-> "mongodb.com"]
Pod7 == WithID(PodcastDoc, 7)
Ep3 == WithID(EpisodeGraphQL(1), 3)
Ep4 == WithID(EpisodePWA(1), 4)
Ep5 == [_id |-> 5, podcast |-> HardCodedPodcastId, title |-> "Episode #3", duration |-> 25]

NoCursor == [rest |-> <<>>, err |-> Nil, open |-> FALSE]
NoEvent == [operationType |-> "none"]
NoStream == [alive |-> FALSE, queue |-> <<>>, err |-> Nil, cur |-> NoEvent, closes |-> 0]

InitPodcasts(s) ==
    IF s = "updating"
    THEN {S \in SUBSET {Pod1, Pod1Nic, Pod2, Pod6, Pod7} : ~({Pod1, Pod1Nic} \subseteq S)}
    ELSE IF s = "deleting"
    THEN {{}, {Pod1}, {Pod1, Pod2}, {Pod1, Pod7}}
    ELSE IF s \in {"creating1", "creating2", "retrieving", "aggregation"}
    THEN {{}, {Pod1}, {Pod1, Pod2}}
    ELSE {{Pod1}}

InitEpisodes(s) ==
    IF s \in {"retrieving", "deleting", "aggregation"} THEN SUBSET {Ep3, Ep4, Ep5}
    ELSE IF s \in TxSamples THEN {{}, {Ep3}}
    ELSE {{Ep3, Ep4}}

\* an empty collection may or may not exist; one that holds documents exists
InitExists(s, p, e) ==
    {x \in SUBSET Colls :
        /\ (p # {} => "podcasts" \in x)
        /\ (e # {} => "episodes" \in x)
        /\ (s # "deleting" => x = Colls)}

Init ==
    /\ sample \in Samples
    /\ runs = 1
    /\ ctxExpired = FALSE
    /\ pc = "connect"
    /\ exit = "running"
    /\ exitErr = Nil
    /\ err = Nil
    /\ out = <<>>
    /\ conn = "none"
    /\ podcasts \in InitPodcasts(sample)
    /\ episodes \in InitEpisodes(sample)
    /\ episodes0 = episodes
    /\ exists \in InitExists(sample, podcasts, episodes)
    /\ validator \in (IF sample \in TxSamples THEN BOOLEAN ELSE {FALSE})
    /\ failed = Nil
    /\ lateCalls = {}
    /\ lastReply = "none"
    /\ insertedID = 0
    /\ cursor = NoCursor
    /\ bg = "none"
    /\ mainWG = 0
    /\ bgWG = 0
    /\ stream = NoStream
    /\ oplog = <<>>
    /\ spawned = 0
    /\ streamAcc = {}
    /\ ctxCancelled = FALSE
    /\ loopExit = "none"
    /\ bgPanic = Nil
    /\ session = "none"
    /\ txn = "none"
    /\ txBuf = {}
    /\ bodyErr = Unset
    /\ attempts = 0

\* ------------------------------------------------------ ways a process ends
\* log.Fatal(e): prints e and calls os.Exit(1); deferred calls do not run
LogFatal(e) ==
    /\ exit' = "fatal"
    /\ exitErr' = e
    /\ pc' = "exited"
    /\ UNCHANGED conn

\* panic(e) in main: deferred client.Disconnect runs, then the process dies
PanicMain(e) ==
    /\ exit' = "panic"
    /\ exitErr' = e
    /\ pc' = "exited"
    /\ conn' = IF conn = "connected" THEN "disconnected" ELSE conn

\* the error exit of the sample: log.Fatal(err) or panic(err)
Die(e) == IF sample \in LogFatalSamples THEN LogFatal(e) ELSE PanicMain(e)

\* main returns: deferred client.Disconnect runs
ReturnMain ==
    /\ exit' = "ok"
    /\ exitErr' = Nil
    /\ pc' = "exited"
    /\ conn' = "disconnected"

Goto(l) ==
    /\ pc' = l
    /\ UNCHANGED <<exit, exitErr, conn>>

\* the samples whose driver calls all take the ctx made by
\* context.WithTimeout(context.Background(), 10*time.Second)
TimeoutSamples == LogFatalSamples \cup {"aggregation"}

\* the outcome of a request: it is served, or it fails; a call whose context
\* is past its deadline returns the context's error
Replies == IF ctxExpired THEN {DeadlineExceeded} ELSE {"ok", NetErr}

\* the error a driver call returns for a reply
DriverErr(reply) == IF reply = "ok" THEN Nil ELSE reply

\* bookkeeping of a driver call: its reply, the first error, calls after it
Track(call, reply, e) ==
    /\ lastReply' = reply
    /\ lateCalls' = IF failed # Nil THEN lateCalls \cup {call} ELSE lateCalls
    /\ failed' = IF failed = Nil THEN e ELSE failed

UsedIds == IdsOf(podcasts) \cup IdsOf(episodes) \cup IdsOf(txBuf) \cup {HardCodedPodcastId}

\* ------------------------------------------------------------ the deadline
\* ten seconds after context.WithTimeout the context expires; nothing in the
\* samples cancels it or replaces it
DeadlineExpires ==
    /\ sample \in TimeoutSamples
    /\ exit = "running"
    /\ ~ctxExpired
    /\ ctxExpired' = TRUE
    /\ UNCHANGED <<sample, runs, episodes0, pc, exit, exitErr, err, out, conn,
                   dbVars, trackVars, curVars, csVars, txVars>>

\* ---------------------------------------------------------------- connect
\* mongo.NewClient + client.Connect (or mongo.Connect), then the defer
Connect ==
    /\ pc = "connect"
    /\ exit = "running"
    /\ \E reply \in Replies :
        /\ Track("Connect", reply, DriverErr(reply))
        /\ err' = DriverErr(reply)
        /\ IF reply = "ok"
           THEN /\ conn' = "connected"
                /\ pc' = "start"
                /\ UNCHANGED <<exit, exitErr>>
           ELSE Die(DriverErr(reply))
    /\ UNCHANGED <<sample, runVars, out, dbVars, curVars, csVars, txVars>>

\* ------------------------------------------------- creating, first sample
Creating1InsertOne ==
    /\ sample = "creating1" /\ pc = "start"
    /\ \E reply \in Replies :
        /\ Track("InsertOne", reply, DriverErr(reply))
        /\ err' = DriverErr(reply)
        /\ IF reply = "ok"
           THEN /\ podcasts' = podcasts \cup {WithID(PodcastDoc, NewObjectID(UsedIds))}
                /\ exists' = exists \cup {"podcasts"}
                /\ insertedID' = NewObjectID(UsedIds)
                /\ Goto("insertMany")
           ELSE /\ LogFatal(DriverErr(reply))
                /\ UNCHANGED <<podcasts, exists, insertedID>>
    /\ UNCHANGED <<sample, runVars, out, episodes, validator, cursor, csVars, txVars>>

\* the documents an InsertMany of the two episodes stores
TwoEpisodes(pid) ==
    LET a == NewObjectID(UsedIds)
        b == NewObjectID(UsedIds \cup {a})
    IN {WithID(EpisodeGraphQL(pid), a), WithID(EpisodePWA(pid), b)}

Creating1InsertMany ==
    /\ sample = "creating1" /\ pc = "insertMany"
    /\ \E reply \in Replies :
        /\ Track("InsertMany", reply, DriverErr(reply))
        /\ err' = DriverErr(reply)
        /\ IF reply = "ok"
           THEN /\ episodes' = episodes \cup TwoEpisodes(insertedID)
                /\ exists' = exists \cup {"episodes"}
                /\ out' = Append(out, [inserted |-> 2])
                /\ ReturnMain
           ELSE /\ LogFatal(DriverErr(reply))
                /\ UNCHANGED <<episodes, exists, out>>
    /\ UNCHANGED <<sample, runVars, podcasts, validator, curVars, csVars, txVars>>

\* ------------------------------------------------ creating, second sample
\* the result and the error of InsertOne are dropped
Creating2InsertOne ==
    /\ sample = "creating2" /\ pc = "start"
    /\ \E reply \in Replies :
        /\ Track("InsertOne", reply, DriverErr(reply))
        /\ IF reply = "ok"
           THEN /\ podcasts' = podcasts \cup {WithID(PodcastDoc, NewObjectID(UsedIds))}
                /\ exists' = exists \cup {"podcasts"}
           ELSE UNCHANGED <<podcasts, exists>>
    /\ Goto("insertMany")
    /\ UNCHANGED <<sample, runVars, err, out, episodes, validator, curVars, csVars, txVars>>

\* the result and the error of InsertMany are dropped; main returns
Creating2InsertMany ==
    /\ sample = "creating2" /\ pc = "insertMany"
    /\ \E reply \in Replies :
        /\ Track("InsertMany", reply, DriverErr(reply))
        /\ IF reply = "ok"
           THEN /\ episodes' = episodes \cup TwoEpisodes(HardCodedPodcastId)
                /\ exists' = exists \cup {"episodes"}
           ELSE UNCHANGED <<episodes, exists>>
    /\ ReturnMain
    /\ UNCHANGED <<sample, runVars, err, out, podcasts, validator, curVars, csVars, txVars>>

\* ------------------------------------------------------------- retrieving
\* the orders in which a cursor may deliver the documents of a result set
Orders(S) ==
    {s \in [1..Cardinality(S) -> S] :
        \A i, j \in 1..Cardinality(S) : i # j => s[i] # s[j]}

\* what Decode leaves in a fresh bson.D when it fails: the empty document
EmptyDoc == <<>>

\* FindOne(ctx, bson.M{}).Decode(&podcast), then Println(podcast)
RetrievingFindOne ==
    /\ sample = "retrieving" /\ pc = "start"
    /\ \E reply \in Replies :
        LET e == IF reply # "ok" THEN reply
                 ELSE IF Find(podcasts, <<>>) = {} THEN ErrNoDocuments ELSE Nil
        IN /\ Track("FindOne", reply, e)
           /\ err' = e
           /\ IF e = Nil
              THEN /\ \E d \in Find(podcasts, <<>>) : out' = Append(out, d)
                   /\ Goto("find")
              ELSE /\ LogFatal(e)
                   /\ UNCHANGED out
    /\ UNCHANGED <<sample, runVars, dbVars, curVars, csVars, txVars>>

\* cursor, err := episodesCollection.Find(ctx, bson.M{"duration": 25})
RetrievingFind ==
    /\ sample = "retrieving" /\ pc = "find"
    /\ \E reply \in Replies :
        /\ Track("Find", reply, DriverErr(reply))
        /\ err' = DriverErr(reply)
        /\ IF reply = "ok"
           THEN /\ \E s \in Orders(Find(episodes, [duration |-> FilterDuration])) :
                     cursor' = [rest |-> s, err |-> Nil, open |-> TRUE]
                /\ Goto("loop")
           ELSE /\ LogFatal(DriverErr(reply))
                /\ UNCHANGED cursor
    /\ UNCHANGED <<sample, runVars, out, dbVars, insertedID, csVars, txVars>>

\* one turn of for cursor.Next(ctx) { cursor.Decode(&episode); Println(episode) }:
\* the error of Decode is dropped and the episode printed as it is
CursorIterate(l) ==
    /\ sample = "retrieving" /\ pc = l
    /\ cursor.rest # <<>>
    /\ \E decodeErr \in {Nil, DecodeErr} :
        /\ lastReply' = "ok"
        /\ lateCalls' = IF failed # Nil THEN lateCalls \cup {"Next", "Decode"} ELSE lateCalls
        /\ failed' = IF failed = Nil THEN decodeErr ELSE failed
        /\ out' = Append(out, IF decodeErr = Nil THEN Head(cursor.rest) ELSE EmptyDoc)
    /\ cursor' = [cursor EXCEPT !.rest = Tail(cursor.rest)]
    /\ UNCHANGED <<sample, runVars, pc, exit, exitErr, err, conn, dbVars, insertedID, csVars, txVars>>

\* cursor.Next returns false: the result set is exhausted, or fetching the next
\* batch failed; cursor.Err() is not read.  Then cursor.Close(ctx).
CursorEnd(l, to) ==
    /\ sample = "retrieving" /\ pc = l
    /\ \E reply \in (IF cursor.rest = <<>> THEN {"ok"}
                     ELSE IF ctxExpired THEN {DeadlineExceeded} ELSE {NetErr}) :
        /\ Track("Next", reply, DriverErr(reply))
        /\ cursor' = [rest |-> <<>>, err |-> DriverErr(reply), open |-> FALSE]
    /\ Goto(to)
    /\ UNCHANGED <<sample, runVars, err, out, dbVars, insertedID, csVars, txVars>>

RetrievingLoop == CursorIterate("loop")

RetrievingLoopEnd == CursorEnd("loop", "findSorted")

\* the orders a sort on duration, descending, allows
SortedOrders(S) ==
    {s \in Orders(S) :
        \A i, j \in 1..Cardinality(S) : i < j => s[i]["duration"] >= s[j]["duration"]}

\* the $gt filter on duration: the field exists and is greater
GreaterThan(coll, d) == {x \in coll : "duration" \in DOMAIN x /\ x["duration"] > d}

\* Find(ctx, bson.D{{"duration", bson.D{{"$gt", 24}}}}, opts) with SetSort duration -1
RetrievingFindSorted ==
    /\ sample = "retrieving" /\ pc = "findSorted"
    /\ \E reply \in Replies :
        /\ Track("Find", reply, DriverErr(reply))
        /\ err' = DriverErr(reply)
        /\ IF reply = "ok"
           THEN /\ \E s \in SortedOrders(GreaterThan(episodes, SortGtDuration)) :
                     cursor' = [rest |-> s, err |-> Nil, open |-> TRUE]
                /\ Goto("loopSorted")
           ELSE /\ LogFatal(DriverErr(reply))
                /\ UNCHANGED cursor
    /\ UNCHANGED <<sample, runVars, out, dbVars, insertedID, csVars, txVars>>

RetrievingLoopSorted == CursorIterate("loopSorted")

RetrievingLoopSortedEnd == CursorEnd("loopSorted", "return")

\* --------------------------------------------------------------- deleting
\* faulty variant: DeleteOne removes every matching document
DeletingDeleteOneAll ==
    /\ sample = "deleting" /\ pc = "start"
    /\ \E reply \in Replies :
        /\ Track("DeleteOne", reply, DriverErr(reply))
        /\ err' = DriverErr(reply)
        /\ IF reply = "ok"
           THEN /\ podcasts' = podcasts \ Find(podcasts, [title |-> PolyglotTitle])
                /\ out' = Append(out,
                      [deleted |-> Cardinality(Find(podcasts, [title |-> PolyglotTitle]))])
                /\ Goto("deleteMany")
           ELSE /\ LogFatal(DriverErr(reply))
                /\ UNCHANGED <<podcasts, out>>
    /\ UNCHANGED <<sample, runVars, episodes, exists, validator, curVars, csVars, txVars>>

\* DeleteOne(ctx, bson.M{"title": ...}): removes one matching document, if any
DeletingDeleteOne ==
    /\ sample = "deleting" /\ pc = "start"
    /\ \E reply \in Replies :
        /\ Track("DeleteOne", reply, DriverErr(reply))
        /\ err' = DriverErr(reply)
        /\ IF reply = "ok"
           THEN /\ IF Find(podcasts, [title |-> PolyglotTitle]) = {}
                   THEN /\ podcasts' = podcasts
                        /\ out' = Append(out, [deleted |-> 0])
                   ELSE /\ \E d \in Find(podcasts, [title |-> PolyglotTitle]) :
                             podcasts' = podcasts \ {d}
                        /\ out' = Append(out, [deleted |-> 1])
                /\ Goto("deleteMany")
           ELSE /\ LogFatal(DriverErr(reply))
                /\ UNCHANGED <<podcasts, out>>
    /\ UNCHANGED <<sample, runVars, episodes, exists, validator, curVars, csVars, txVars>>

\* DeleteMany(ctx, bson.M{"duration": 25}): removes every matching document
DeletingDeleteMany ==
    /\ sample = "deleting" /\ pc = "deleteMany"
    /\ \E reply \in Replies :
        /\ Track("DeleteMany", reply, DriverErr(reply))
        /\ err' = DriverErr(reply)
        /\ IF reply = "ok"
           THEN /\ episodes' = episodes \ Find(episodes, [duration |-> FilterDuration])
                /\ out' = Append(out,
                      [deleted |-> Cardinality(Find(episodes, [duration |-> FilterDuration]))])
                /\ Goto("dropPodcasts")
           ELSE /\ LogFatal(DriverErr(reply))
                /\ UNCHANGED <<episodes, out>>
    /\ UNCHANGED <<sample, runVars, podcasts, exists, validator, curVars, csVars, txVars>>

\* the server's replies to a drop: the request fails, or the collection is
\* dropped, or there is no such collection
DropReplies(c) ==
    IF ctxExpired THEN {DeadlineExceeded}
    ELSE {NetErr, IF c \in exists THEN "ok" ELSE NamespaceNotFound}

\* faulty variant: the server's error for a missing collection is passed on
DropErrUnmasked(reply) == DriverErr(reply)

\* Collection.Drop masks the server's "ns not found" and returns nil
DropErr(reply) == IF reply = NamespaceNotFound THEN Nil ELSE DriverErr(reply)

\* if err = coll.Drop(ctx); err != nil { log.Fatal(err) }
Drop(c, l, to) ==
    /\ sample = "deleting" /\ pc = l
    /\ \E reply \in DropReplies(c) :
        /\ Track("Drop", reply, DropErr(reply))
        /\ err' = DropErr(reply)
        /\ IF DropErr(reply) = Nil
           THEN /\ exists' = exists \ {c}
                /\ podcasts' = IF c = "podcasts" THEN {} ELSE podcasts
                /\ episodes' = IF c = "episodes" THEN {} ELSE episodes
                /\ IF to = "exited" THEN ReturnMain ELSE Goto(to)
           ELSE /\ LogFatal(DropErr(reply))
                /\ UNCHANGED <<exists, podcasts, episodes>>
    /\ UNCHANGED <<sample, runVars, out, validator, curVars, csVars, txVars>>

DeletingDropPodcasts == Drop("podcasts", "dropPodcasts", "dropEpisodes")

DeletingDropEpisodes == Drop("episodes", "dropEpisodes", "exited")

\* --------------------------------------------------------------- updating
SetAuthorNic == [author |-> "Nic Raboy"]
SetAuthorNicolas == [author |-> "Nicolas Raboy"]
SetAuthorWebsite == [author |-> "Nic Raboy", website |-> "thepolyglotdeveloper.com"]
Replacement == [title |-> "The Nic Raboy Show", author |-> "Nicolas Raboy"]

\* faulty variant: the update document takes the place of the document
SetFieldsOnly(doc, upd) == WithID(upd, doc["_id"])

\* {"$set": upd} applied to a document: the named fields get the given values,
\* every other field stays as it is
SetFields(doc, upd) ==
    [k \in (DOMAIN doc) \cup (DOMAIN upd) |-> IF k \in DOMAIN upd THEN upd[k] ELSE doc[k]]

\* faulty variant: the replacement is merged into the document
ReplaceDocKeep(doc, repl) == SetFields(doc, repl)

\* a replacement applied to a document: the replacement with the document's _id
ReplaceDoc(doc, repl) == WithID(repl, doc["_id"])

\* UpdateOne(ctx, bson.M{"_id": id}, {"$set": {"author": "Nic Raboy"}}), then
\* Printf("Updated %v Documents!", result.MatchedCount)
UpdatingUpdateOne ==
    /\ sample = "updating" /\ pc = "start"
    /\ \E reply \in Replies :
        /\ Track("UpdateOne", reply, DriverErr(reply))
        /\ err' = DriverErr(reply)
        /\ IF reply = "ok"
           THEN /\ IF Find(podcasts, [_id |-> UpdateId]) = {}
                   THEN podcasts' = podcasts
                   ELSE \E d \in Find(podcasts, [_id |-> UpdateId]) :
                          podcasts' = (podcasts \ {d}) \cup {SetFields(d, SetAuthorNic)}
                /\ out' = Append(out,
                      [updated |-> IF Find(podcasts, [_id |-> UpdateId]) = {} THEN 0 ELSE 1])
                /\ Goto("updateMany1")
           ELSE /\ LogFatal(DriverErr(reply))
                /\ UNCHANGED <<podcasts, out>>
    /\ UNCHANGED <<sample, runVars, episodes, exists, validator, curVars, csVars, txVars>>

\* the documents of the filter that an update changes
Modified(coll, filter, upd) == {d \in Find(coll, filter) : SetFields(d, upd) # d}

\* UpdateMany(ctx, filter, {"$set": upd}), then
\* Printf("Updated %v Documents!", result.ModifiedCount)
UpdateMany(l, filter, upd, to) ==
    /\ sample = "updating" /\ pc = l
    /\ \E reply \in Replies :
        /\ Track("UpdateMany", reply, DriverErr(reply))
        /\ err' = DriverErr(reply)
        /\ IF reply = "ok"
           THEN /\ podcasts' = (podcasts \ Find(podcasts, filter))
                                  \cup {SetFields(d, upd) : d \in Find(podcasts, filter)}
                /\ out' = Append(out, [updated |-> Cardinality(Modified(podcasts, filter, upd))])
                /\ Goto(to)
           ELSE /\ LogFatal(DriverErr(reply))
                /\ UNCHANGED <<podcasts, out>>
    /\ UNCHANGED <<sample, runVars, episodes, exists, validator, curVars, csVars, txVars>>

UpdatingUpdateManyAuthor ==
    UpdateMany("updateMany1", [title |-> PolyglotTitle], SetAuthorNicolas, "updateMany2")

UpdatingUpdateManyWebsite ==
    UpdateMany("updateMany2", [title |-> PolyglotTitle], SetAuthorWebsite, "replaceOne")

\* result, err = ReplaceOne(ctx, bson.M{"author": "Nic Raboy"}, replacement);
\* Printf("Replaced %v Documents!", result.ModifiedCount): err is not looked
\* at, and result is nil when the call failed
UpdatingReplaceOne ==
    /\ sample = "updating" /\ pc = "replaceOne"
    /\ \E reply \in Replies :
        /\ Track("ReplaceOne", reply, DriverErr(reply))
        /\ err' = DriverErr(reply)
        /\ IF reply = "ok"
           THEN /\ IF Find(podcasts, [author |-> "Nic Raboy"]) = {}
                   THEN /\ podcasts' = podcasts
                        /\ out' = Append(out, [replaced |-> 0])
                   ELSE \E d \in Find(podcasts, [author |-> "Nic Raboy"]) :
                          /\ podcasts' = (podcasts \ {d}) \cup {ReplaceDoc(d, Replacement)}
                          /\ out' = Append(out, [replaced |-> 1])
                /\ ReturnMain
           ELSE /\ PanicMain(NilDeref)
                /\ UNCHANGED <<podcasts, out>>
    /\ UNCHANGED <<sample, runVars, episodes, exists, validator, curVars, csVars, txVars>>

\* ------------------------------------------------------------ aggregation
\* {"$sum": "$duration"} over a group: a document without the field adds 0
RECURSIVE SumDuration(_)
SumDuration(S) ==
    IF S = {} THEN 0
    ELSE LET d == CHOOSE x \in S : TRUE
         IN (IF "duration" \in DOMAIN d THEN d["duration"] ELSE 0) + SumDuration(S \ {d})

\* faulty variant: the pipeline without its $match stage, one group for all
MatchGroupNoMatch(coll, id) ==
    IF coll = {} THEN {} ELSE {[_id |-> id, total |-> SumDuration(coll)]}

\* [{"$match": {"podcast": id}},
\*  {"$group": {"_id": "$podcast", "total": {"$sum": "$duration"}}}]
MatchGroup(coll, id) ==
    IF Find(coll, [podcast |-> id]) = {} THEN {}
    ELSE {[_id |-> id, total |-> SumDuration(Find(coll, [podcast |-> id]))]}

\* faulty variant: preserveNullAndEmptyArrays true, an episode whose podcast is
\* not found stays in the result, without the podcast field
LookupUnwindPreserve(eps, pods) ==
    UNION {IF Find(pods, [_id |-> e["podcast"]]) = {}
           THEN {[k \in (DOMAIN e) \ {"podcast"} |-> e[k]]}
           ELSE {[k \in DOMAIN e |-> IF k = "podcast" THEN p ELSE e[k]] :
                    p \in Find(pods, [_id |-> e["podcast"]])} :
           e \in {x \in eps : "podcast" \in DOMAIN x}}

\* [{"$lookup": {from: "podcasts", localField: "podcast", foreignField: "_id",
\*               as: "podcast"}},
\*  {"$unwind": {path: "$podcast", preserveNullAndEmptyArrays: false}}]:
\* one document per pair of an episode and a podcast it refers to
LookupUnwind(eps, pods) ==
    UNION {{[k \in DOMAIN e |-> IF k = "podcast" THEN p ELSE e[k]] :
                p \in Find(pods, [_id |-> e["podcast"]])} :
           e \in {x \in eps : "podcast" \in DOMAIN x}}

ZeroPodcast == [_id |-> 0, title |-> "", author |-> "", tags |-> <<>>]

ZeroPodcastEpisode ==
    [_id |-> 0, podcast |-> ZeroPodcast, title |-> "", description |-> "",
     duration |-> 0, publish_date |-> 0]

\* decoding a document into a struct: the struct's fields, each with the
\* document's value or, when the document has none, the zero value
DecodeInto(zero, doc) ==
    [k \in DOMAIN zero |-> IF k \in DOMAIN doc THEN doc[k] ELSE zero[k]]

\* decoding into PodcastEpisode, whose podcast field is a Podcast
DecodePodcastEpisode(doc) ==
    [DecodeInto(ZeroPodcastEpisode, doc) EXCEPT
        !.podcast = IF "podcast" \in DOMAIN doc
                    THEN DecodeInto(ZeroPodcast, doc["podcast"])
                    ELSE ZeroPodcast]

\* cursor, err := episodesCollection.Aggregate(ctx, pipeline); panic on err
Aggregate(l, results, to) ==
    /\ sample = "aggregation" /\ pc = l
    /\ \E reply \in Replies :
        /\ Track("Aggregate", reply, DriverErr(reply))
        /\ err' = DriverErr(reply)
        /\ IF reply = "ok"
           THEN /\ \E s \in Orders(results) :
                     cursor' = [rest |-> s, err |-> Nil, open |-> TRUE]
                /\ Goto(to)
           ELSE /\ PanicMain(DriverErr(reply))
                /\ UNCHANGED cursor
    /\ UNCHANGED <<sample, runVars, out, dbVars, insertedID, csVars, txVars>>

\* what cursor.All meets: the first batch is at hand, a further batch is
\* fetched with ctx
AllReplies == {"ok"} \cup Replies

\* if err = cursor.All(ctx, &results); err != nil { panic(err) }; Println(results)
\* results is a []interface{}, or (struct) a []PodcastEpisode
CursorAll(l, struct, to) ==
    /\ sample = "aggregation" /\ pc = l
    /\ \E reply \in AllReplies :
        /\ Track("All", reply, DriverErr(reply))
        /\ err' = DriverErr(reply)
        /\ cursor' = [rest |-> <<>>, err |-> DriverErr(reply), open |-> FALSE]
        /\ IF reply = "ok"
           THEN /\ out' = Append(out,
                      IF struct
                      THEN [i \in DOMAIN cursor.rest |-> DecodePodcastEpisode(cursor.rest[i])]
                      ELSE cursor.rest)
                /\ IF to = "exited" THEN ReturnMain ELSE Goto(to)
           ELSE /\ PanicMain(DriverErr(reply))
                /\ UNCHANGED out
    /\ UNCHANGED <<sample, runVars, dbVars, insertedID, csVars, txVars>>

AggregationMatchGroup ==
    Aggregate("start", MatchGroup(episodes, AggregationPodcastId), "all1")

AggregationAllInfo == CursorAll("all1", FALSE, "aggregate2")

AggregationLookup ==
    Aggregate("aggregate2", LookupUnwind(episodes, podcasts), "all2")

AggregationAllLoaded == CursorAll("all2", FALSE, "aggregate3")

AggregationLookupStruct ==
    Aggregate("aggregate3", LookupUnwind(episodes, podcasts), "all3")

AggregationAllLoadedStruct == CursorAll("all3", TRUE, "exited")

\* ---------------------------------------------------------- change streams
OpKinds == {"insert", "replace", "update", "delete"}
OpDurations == {GtDuration, GtDuration + 1, GtDuration + 2}

\* the writes another client can make: the duration is that of the document
\* written; a delete writes none
WriterOps ==
    {[kind |-> k, duration |-> d] : k \in {"insert", "replace", "update"}, d \in OpDurations}
        \cup {[kind |-> "delete", duration |-> 0]}

\* the change event of a write: inserts and replaces carry the full document
ChangeEvent(op) ==
    IF op.kind \in {"insert", "replace"}
    THEN [operationType |-> op.kind, fullDocument |-> [duration |-> op.duration]]
    ELSE [operationType |-> op.kind]

\* faulty variant: a pipeline without the operationType condition
MatchPipelineAnyType(ev) ==
    /\ "fullDocument" \in DOMAIN ev
    /\ ev.fullDocument.duration > GtDuration

\* {"$match": {operationType: "insert", "fullDocument.duration": {"$gt": 30}}}
MatchPipeline(ev) ==
    /\ ev.operationType = "insert"
    /\ "fullDocument" \in DOMAIN ev
    /\ ev.fullDocument.duration > GtDuration

\* episodesStream, err := episodesCollection.Watch(ctx, mongo.Pipeline{matchPipeline})
ChangeStreamWatch ==
    /\ sample \in ChangeStreamSamples /\ pc = "start"
    /\ \E reply \in Replies :
        /\ Track("Watch", reply, DriverErr(reply))
        /\ err' = DriverErr(reply)
        /\ IF reply = "ok"
           THEN /\ stream' = [NoStream EXCEPT !.alive = TRUE]
                /\ Goto("add")
           ELSE /\ PanicMain(DriverErr(reply))
                /\ UNCHANGED stream
    /\ UNCHANGED <<sample, runVars, out, dbVars, curVars, txVars,
                   bg, mainWG, bgWG, oplog, spawned, streamAcc, ctxCancelled, loopExit, bgPanic>>

\* faulty variant: the counter is not raised before the goroutine is launched
ChangeStreamAddNone ==
    /\ sample \in ChangeStreamSamples /\ pc = "add"
    /\ mainWG' = mainWG
    /\ Goto("go")
    /\ UNCHANGED <<sample, runVars, err, out, dbVars, trackVars, curVars, txVars,
                   bg, bgWG, stream, oplog, spawned, streamAcc, ctxCancelled, loopExit, bgPanic>>

\* waitGroup.Add(1)
ChangeStreamAdd ==
    /\ sample \in ChangeStreamSamples /\ pc = "add"
    /\ mainWG' = mainWG + 1
    /\ Goto("go")
    /\ UNCHANGED <<sample, runVars, err, out, dbVars, trackVars, curVars, txVars,
                   bg, bgWG, stream, oplog, spawned, streamAcc, ctxCancelled, loopExit, bgPanic>>

\* faulty variant: cancelFn is called once the goroutine is launched
ChangeStreamGoCancel ==
    /\ sample \in ChangeStreamSamples /\ pc = "go"
    /\ bg' = "next"
    /\ bgWG' = mainWG
    /\ spawned' = spawned + 1
    /\ ctxCancelled' = (sample = "changeStreamCtx")
    /\ Goto("wait")
    /\ UNCHANGED <<sample, runVars, err, out, dbVars, trackVars, curVars, txVars,
                   mainWG, stream, oplog, streamAcc, loopExit, bgPanic>>

\* faulty variant: the go statement can run a second time
ChangeStreamGoTwice ==
    /\ sample \in ChangeStreamSamples /\ pc \in {"go", "wait"} /\ spawned < 2
    /\ bg' = "next"
    /\ bgWG' = mainWG
    /\ spawned' = spawned + 1
    /\ Goto("wait")
    /\ UNCHANGED <<sample, runVars, err, out, dbVars, trackVars, curVars, txVars,
                   mainWG, stream, oplog, streamAcc, ctxCancelled, loopExit, bgPanic>>

\* (routineCtx, cancelFn := context.WithCancel(context.Background());)
\* go iterateChangeStream(routineCtx, waitGroup, episodesStream):
\* the sync.WaitGroup parameter is passed by value, the goroutine gets a copy
ChangeStreamGo ==
    /\ sample \in ChangeStreamSamples /\ pc = "go"
    /\ bg' = "next"
    /\ bgWG' = mainWG
    /\ spawned' = spawned + 1
    /\ Goto("wait")
    /\ UNCHANGED <<sample, runVars, err, out, dbVars, trackVars, curVars, txVars,
                   mainWG, stream, oplog, streamAcc, ctxCancelled, loopExit, bgPanic>>

\* main is at its last statement and it completes: the retrieving sample after
\* the second cursor.Close, a change-stream sample when waitGroup.Wait()
\* returns, which it does when the counter of main's waitGroup is zero
AtEndOfMain ==
    \/ sample = "retrieving" /\ pc = "return"
    \/ sample \in ChangeStreamSamples /\ pc = "wait" /\ mainWG = 0

MainReturn ==
    /\ exit = "running"
    /\ AtEndOfMain
    /\ ReturnMain
    /\ UNCHANGED <<sample, runVars, err, out, dbVars, trackVars, curVars, csVars, txVars>>

BgRunning == exit = "running" /\ bg \notin {"none", "done"}

\* another client writes to episodes; the server appends the change event to
\* the feed when the pipeline matches it
WriterOp ==
    /\ sample \in ChangeStreamSamples /\ exit = "running"
    /\ stream.alive /\ stream.err = Nil
    /\ Len(oplog) < MaxOps
    /\ \E op \in WriterOps :
        /\ oplog' = Append(oplog, op)
        /\ stream' = IF MatchPipeline(ChangeEvent(op))
                     THEN [stream EXCEPT !.queue = Append(@, ChangeEvent(op))]
                     ELSE stream
    /\ UNCHANGED <<procVars, dbVars, trackVars, curVars, txVars,
                   bg, mainWG, bgWG, spawned, streamAcc, ctxCancelled, loopExit, bgPanic>>

\* the feed ends: it fails (err is set), or the server closes it
FeedEnds ==
    /\ sample \in ChangeStreamSamples /\ exit = "running"
    /\ stream.alive /\ stream.err = Nil
    /\ \E e \in {Nil, NetErr} : stream' = [stream EXCEPT !.alive = FALSE, !.err = e]
    /\ UNCHANGED <<procVars, dbVars, trackVars, curVars, txVars,
                   bg, mainWG, bgWG, oplog, spawned, streamAcc, ctxCancelled, loopExit, bgPanic>>

\* stream.Next(ctx) returns true: the next event is the current one
IterateNext ==
    /\ BgRunning /\ bg = "next"
    /\ ~ctxCancelled /\ stream.err = Nil /\ stream.queue # <<>>
    /\ Track("Next", "ok", Nil)
    /\ stream' = [stream EXCEPT !.cur = Head(stream.queue), !.queue = Tail(@)]
    /\ streamAcc' = streamAcc \cup {"bg"}
    /\ bg' = "decode"
    /\ UNCHANGED <<procVars, dbVars, curVars, txVars,
                   mainWG, bgWG, oplog, spawned, ctxCancelled, loopExit, bgPanic>>

\* stream.Next(ctx) returns false: the context is cancelled, the feed failed,
\* or the feed was closed and every event delivered
IterateNextFalse ==
    /\ BgRunning /\ bg = "next"
    /\ \/ ctxCancelled
       \/ stream.err # Nil
       \/ ~stream.alive /\ stream.queue = <<>>
    /\ Track("Next", IF stream.err # Nil THEN stream.err ELSE "ok", stream.err)
    /\ loopExit' = IF ctxCancelled THEN "cancelled"
                   ELSE IF stream.err # Nil THEN "error" ELSE "closed"
    /\ streamAcc' = streamAcc \cup {"bg"}
    /\ bg' = "afterLoop"
    /\ UNCHANGED <<procVars, dbVars, curVars, txVars,
                   mainWG, bgWG, stream, oplog, spawned, ctxCancelled, bgPanic>>

\* faulty variant: a Decode error ends the process at once (log.Fatal), the
\* deferred calls do not run
IterateDecodeFatal ==
    /\ BgRunning /\ bg = "decode"
    /\ \E e \in {Nil, DecodeErr} :
        /\ Track("Decode", "ok", e)
        /\ IF e = Nil
           THEN /\ out' = Append(out, stream.cur)
                /\ bg' = "next"
                /\ UNCHANGED <<loopExit, bgPanic, exit, exitErr, pc>>
           ELSE /\ bgPanic' = e
                /\ loopExit' = "decodeError"
                /\ bg' = "done"
                /\ exit' = "fatal"
                /\ exitErr' = e
                /\ pc' = "exited"
                /\ UNCHANGED out
    /\ stream' = [stream EXCEPT !.cur = NoEvent]
    /\ streamAcc' = streamAcc \cup {"bg"}
    /\ UNCHANGED <<sample, runVars, err, conn, dbVars, curVars, txVars,
                   mainWG, bgWG, oplog, spawned, ctxCancelled>>

\* faulty variant: the event is printed twice
IterateDecodeTwice ==
    /\ BgRunning /\ bg = "decode"
    /\ \E e \in {Nil, DecodeErr} :
        /\ Track("Decode", "ok", e)
        /\ IF e = Nil
           THEN /\ out' = Append(Append(out, stream.cur), stream.cur)
                /\ bg' = "next"
                /\ UNCHANGED <<loopExit, bgPanic>>
           ELSE /\ bgPanic' = e
                /\ loopExit' = "decodeError"
                /\ bg' = "deferDone"
                /\ UNCHANGED out
    /\ stream' = [stream EXCEPT !.cur = NoEvent]
    /\ streamAcc' = streamAcc \cup {"bg"}
    /\ UNCHANGED <<sample, runVars, pc, exit, exitErr, err, conn, dbVars, curVars, txVars,
                   mainWG, bgWG, oplog, spawned, ctxCancelled>>

\* if err := stream.Decode(&data); err != nil { panic(err) }; Printf(data)
IterateDecode ==
    /\ BgRunning /\ bg = "decode"
    /\ \E e \in {Nil, DecodeErr} :
        /\ Track("Decode", "ok", e)
        /\ IF e = Nil
           THEN /\ out' = Append(out, stream.cur)
                /\ bg' = "next"
                /\ UNCHANGED <<loopExit, bgPanic>>
           ELSE /\ bgPanic' = e
                /\ loopExit' = "decodeError"
                /\ bg' = "deferDone"
                /\ UNCHANGED out
    /\ stream' = [stream EXCEPT !.cur = NoEvent]
    /\ streamAcc' = streamAcc \cup {"bg"}
    /\ UNCHANGED <<sample, runVars, pc, exit, exitErr, err, conn, dbVars, curVars, txVars,
                   mainWG, bgWG, oplog, spawned, ctxCancelled>>

\* after the loop: iterateChangeStream panics with stream.Err() when it is not
\* nil; ChangeStream returns without reading it
IterateAfterLoop ==
    /\ BgRunning /\ bg = "afterLoop"
    /\ bgPanic' = IF sample = "changeStreamCtx" THEN stream.err ELSE Nil
    /\ streamAcc' = IF sample = "changeStreamCtx" THEN streamAcc \cup {"bg"} ELSE streamAcc
    /\ bg' = "deferDone"
    /\ UNCHANGED <<procVars, dbVars, trackVars, curVars, txVars,
                   mainWG, bgWG, stream, oplog, spawned, ctxCancelled, loopExit>>

\* defer waitGroup.Done(): runs first, on the goroutine's waitGroup
IterateDeferDone ==
    /\ BgRunning /\ bg = "deferDone"
    /\ bgWG' = bgWG - 1
    /\ bg' = "deferClose"
    /\ UNCHANGED <<procVars, dbVars, trackVars, curVars, txVars,
                   mainWG, stream, oplog, spawned, streamAcc, ctxCancelled, loopExit, bgPanic>>

\* defer stream.Close(ctx): runs last; then the goroutine is over, and a panic
\* that nothing recovers ends the process without running main's defers
IterateDeferClose ==
    /\ BgRunning /\ bg = "deferClose"
    /\ stream' = [stream EXCEPT !.alive = FALSE, !.closes = @ + 1]
    /\ streamAcc' = streamAcc \cup {"bg"}
    /\ bg' = "done"
    /\ IF bgPanic # Nil
       THEN /\ exit' = "panic"
            /\ exitErr' = bgPanic
            /\ pc' = "exited"
       ELSE UNCHANGED <<exit, exitErr, pc>>
    /\ UNCHANGED <<sample, runVars, err, out, conn, dbVars, trackVars, curVars, txVars,
                   mainWG, bgWG, oplog, spawned, ctxCancelled, loopExit, bgPanic>>

\* ------------------------------------------------------------ transactions
\* session, err := client.StartSession(); defer session.EndSession(ctx)
StartSession ==
    /\ sample \in TxSamples /\ pc = "start"
    /\ \E reply \in Replies :
        /\ Track("StartSession", reply, DriverErr(reply))
        /\ err' = DriverErr(reply)
        /\ IF reply = "ok"
           THEN /\ session' = "active"
                /\ Goto(IF sample = "txManual" THEN "startTransaction" ELSE "withTransaction")
           ELSE /\ PanicMain(DriverErr(reply))
                /\ UNCHANGED session
    /\ UNCHANGED <<sample, runVars, out, dbVars, curVars, csVars, txn, txBuf, bodyErr, attempts>>

\* faulty variant: a server without the validation rule
InsertRepliesNoRule(doc) == {"ok", NetErr}

\* the server's replies to an insert of doc into episodes
InsertReplies(doc) ==
    IF validator /\ ~Validates(doc) THEN {ValidationErr, NetErr} ELSE {"ok", NetErr}

\* main panics after StartSession succeeded: the deferred EndSession ends the
\* session and with it any transaction still open, then Disconnect runs
PanicInSession(e) ==
    /\ PanicMain(e)
    /\ session' = "ended"

\* the manual form: the body of mongo.WithSession starts the transaction
ManualStartTransaction ==
    /\ sample = "txManual" /\ pc = "startTransaction"
    /\ \E e \in {Nil, TxStartErr} :
        /\ Track("StartTransaction", "ok", e)
        /\ IF e = Nil
           THEN /\ txn' = "inprogress"
                /\ Goto("insertFirst")
                /\ UNCHANGED bodyErr
           ELSE /\ bodyErr' = e
                /\ Goto("afterBody")
                /\ UNCHANGED txn
    /\ UNCHANGED <<sample, runVars, err, out, dbVars, curVars, csVars, session, txBuf, attempts>>

\* faulty variant of InsertInTransaction: the insert is made outside the
\* session (ctx in place of sessionContext), so it is visible at once
InsertInTransactionDirect(s, l, doc, to) ==
    /\ sample = s /\ pc = l
    /\ \E reply \in InsertReplies(doc) :
        /\ Track("InsertOne", reply, DriverErr(reply))
        /\ IF reply = "ok"
           THEN /\ episodes' = episodes \cup {WithID(doc, NewObjectID(UsedIds))}
                /\ insertedID' = NewObjectID(UsedIds)
                /\ out' = IF s = "txManual" /\ l = "insertFirst"
                          THEN Append(out, [insertedID |-> NewObjectID(UsedIds)])
                          ELSE out
                /\ Goto(to)
                /\ UNCHANGED <<bodyErr, txBuf>>
           ELSE /\ txBuf' = {}
                /\ bodyErr' = DriverErr(reply)
                /\ Goto("afterBody")
                /\ UNCHANGED <<out, episodes, insertedID>>
    /\ UNCHANGED <<sample, runVars, err, podcasts, exists, validator, cursor, csVars,
                   session, txn, attempts>>

\* InsertOne(sessionContext, doc) in the body: the write belongs to the
\* transaction and is not visible before the commit; a failed write ends the
\* transaction on the server.  The manual form prints the first InsertedID
\* here and the second one after the commit.
InsertInTransaction(s, l, doc, to) ==
    /\ sample = s /\ pc = l
    /\ \E reply \in InsertReplies(doc) :
        /\ Track("InsertOne", reply, DriverErr(reply))
        /\ IF reply = "ok"
           THEN /\ txBuf' = txBuf \cup {WithID(doc, NewObjectID(UsedIds))}
                /\ insertedID' = NewObjectID(UsedIds)
                /\ out' = IF s = "txManual" /\ l = "insertFirst"
                          THEN Append(out, [insertedID |-> NewObjectID(UsedIds)])
                          ELSE out
                /\ Goto(to)
                /\ UNCHANGED bodyErr
           ELSE /\ txBuf' = {}
                /\ bodyErr' = DriverErr(reply)
                /\ Goto("afterBody")
                /\ UNCHANGED <<out, insertedID>>
    /\ UNCHANGED <<sample, runVars, err, dbVars, cursor, csVars, session, txn, attempts>>

ManualInsertFirst ==
    InsertInTransaction("txManual", "insertFirst", TxEpisode1, "insertSecond")

ManualInsertSecond ==
    InsertInTransaction("txManual", "insertSecond", TxEpisode2(ManualSecondDuration), "commit")

\* if err = session.CommitTransaction(sessionContext); err != nil { return err }
ManualCommit ==
    /\ sample = "txManual" /\ pc = "commit"
    /\ \E reply \in Replies :
        /\ Track("CommitTransaction", reply, DriverErr(reply))
        /\ IF reply = "ok"
           THEN /\ episodes' = episodes \cup txBuf
                /\ exists' = exists \cup {"episodes"}
                /\ txn' = "committed"
                /\ out' = Append(out, [insertedID |-> insertedID])
           ELSE /\ txn' = "commitFailed"
                /\ UNCHANGED <<episodes, exists, out>>
        /\ bodyErr' = DriverErr(reply)
    /\ txBuf' = {}
    /\ Goto("afterBody")
    /\ UNCHANGED <<sample, runVars, err, podcasts, validator, curVars, csVars, session, attempts>>

\* what session.AbortTransaction returns: the driver aborts a transaction that
\* is in progress, and refuses when none is (none was started, or a commit was
\* already attempted)
AbortErrs == IF txn = "inprogress" THEN {Nil} ELSE {AbortErr}

\* err = mongo.WithSession(...) has returned:
\* if err != nil { if abortErr := session.AbortTransaction(ctx); abortErr != nil
\* { panic(abortErr) }; panic(err) }, else main returns
ManualAfterBody ==
    /\ sample = "txManual" /\ pc = "afterBody"
    /\ err' = bodyErr
    /\ IF bodyErr # Nil
       THEN \E abortErr \in AbortErrs :
              /\ lastReply' = "ok"
              /\ UNCHANGED <<failed, lateCalls>>
              /\ txn' = IF abortErr = Nil THEN "aborted" ELSE txn
              /\ PanicInSession(IF abortErr # Nil THEN abortErr ELSE bodyErr)
       ELSE /\ ReturnMain
            /\ session' = "ended"
            /\ UNCHANGED <<trackVars, txn>>
    /\ txBuf' = {}
    /\ UNCHANGED <<sample, runVars, out, dbVars, curVars, csVars, bodyErr, attempts>>

\* session.WithTransaction starts a transaction and runs the body
WithTransactionBegin ==
    /\ sample = "txWith" /\ pc = "withTransaction"
    /\ txn' = "inprogress"
    /\ txBuf' = {}
    /\ attempts' = attempts + 1
    /\ Goto("insertFirst")
    /\ UNCHANGED <<sample, runVars, err, out, dbVars, trackVars, curVars, csVars, session, bodyErr>>

WithTransactionInsertFirst ==
    InsertInTransaction("txWith", "insertFirst", TxEpisode1, "insertSecond")

\* the body returns (result, nil) after the second insert
WithTransactionInsertSecond ==
    InsertInTransaction("txWith", "insertSecond", TxEpisode2(WithTxSecondDuration), "commit")

\* faulty variant: after a commit that succeeded the body may be run again
WithTransactionCommitRerun ==
    /\ sample = "txWith" /\ pc = "commit"
    /\ \E reply \in Replies :
        /\ Track("CommitTransaction", reply, DriverErr(reply))
        /\ err' = DriverErr(reply)
        /\ IF reply = "ok"
           THEN /\ episodes' = episodes \cup txBuf
                /\ exists' = exists \cup {"episodes"}
                /\ txn' = "committed"
                /\ \/ Goto("afterTransaction")
                   \/ attempts <= MaxRetries /\ Goto("withTransaction")
           ELSE /\ txn' = "commitFailed"
                /\ Goto("afterTransaction")
                /\ UNCHANGED <<episodes, exists>>
    /\ bodyErr' = Nil
    /\ txBuf' = {}
    /\ UNCHANGED <<sample, runVars, out, podcasts, validator, curVars, csVars, session, attempts>>

\* the body returned with no error: WithTransaction commits
WithTransactionCommit ==
    /\ sample = "txWith" /\ pc = "commit"
    /\ \E reply \in Replies :
        /\ Track("CommitTransaction", reply, DriverErr(reply))
        /\ err' = DriverErr(reply)
        /\ IF reply = "ok"
           THEN /\ episodes' = episodes \cup txBuf
                /\ exists' = exists \cup {"episodes"}
                /\ txn' = "committed"
           ELSE /\ txn' = "commitFailed"
                /\ UNCHANGED <<episodes, exists>>
    /\ bodyErr' = Nil
    /\ txBuf' = {}
    /\ Goto("afterTransaction")
    /\ UNCHANGED <<sample, runVars, out, podcasts, validator, curVars, csVars, session, attempts>>

\* the body returned an error: WithTransaction aborts the transaction, then
\* runs the body again (a retry the driver's policy allows) or returns the error
WithTransactionAbort ==
    /\ sample = "txWith" /\ pc = "afterBody"
    /\ txn' = "aborted"
    /\ txBuf' = {}
    /\ \/ /\ attempts <= MaxRetries
          /\ Goto("withTransaction")
          /\ UNCHANGED err
       \/ /\ err' = bodyErr
          /\ Goto("afterTransaction")
    /\ UNCHANGED <<sample, runVars, out, dbVars, trackVars, curVars, csVars, session, bodyErr, attempts>>

\* _, err = session.WithTransaction(...); if err != nil { panic(err) }
WithTransactionAfter ==
    /\ sample = "txWith" /\ pc = "afterTransaction"
    /\ IF err # Nil
       THEN PanicInSession(err)
       ELSE /\ ReturnMain
            /\ session' = "ended"
    /\ UNCHANGED <<sample, runVars, err, out, dbVars, trackVars, curVars, csVars,
                   txn, txBuf, bodyErr, attempts>>

\* ------------------------------------------- podcast transaction sample
\* session, err := client.StartSession(); no EndSession is deferred
PodcastStartSession ==
    /\ sample = "txPodcast" /\ pc = "start"
    /\ \E reply \in Replies :
        /\ Track("StartSession", reply, DriverErr(reply))
        /\ err' = DriverErr(reply)
        /\ IF reply = "ok"
           THEN /\ session' = "active"
                /\ Goto("startTransaction")
           ELSE /\ PanicMain(DriverErr(reply))
                /\ UNCHANGED session
    /\ UNCHANGED <<sample, runVars, out, dbVars, curVars, csVars, txn, txBuf, bodyErr, attempts>>

\* if err = session.StartTransaction(); err != nil { panic(err) }
PodcastStartTransaction ==
    /\ sample = "txPodcast" /\ pc = "startTransaction"
    /\ \E e \in {Nil, TxStartErr} :
        /\ Track("StartTransaction", "ok", e)
        /\ err' = e
        /\ IF e = Nil
           THEN /\ txn' = "inprogress"
                /\ Goto("insertOne")
           ELSE /\ PanicMain(e)
                /\ UNCHANGED txn
    /\ UNCHANGED <<sample, runVars, out, dbVars, curVars, csVars, session, txBuf, bodyErr, attempts>>

\* in the body of mongo.WithSession: InsertOne(sessionContext, Podcast{...});
\* if err != nil { panic(err) }.  The panic leaves the body and main; nothing
\* aborts the transaction and nothing ends the session
PodcastInsertOne ==
    /\ sample = "txPodcast" /\ pc = "insertOne"
    /\ \E reply \in Replies :
        /\ Track("InsertOne", reply, DriverErr(reply))
        /\ IF reply = "ok"
           THEN /\ txBuf' = txBuf \cup {WithID(TxPodcast, NewObjectID(UsedIds))}
                /\ insertedID' = NewObjectID(UsedIds)
                /\ Goto("commit")
           ELSE /\ PanicMain(DriverErr(reply))
                /\ UNCHANGED <<txBuf, insertedID>>
    /\ UNCHANGED <<sample, runVars, err, out, dbVars, cursor, csVars, session, txn, bodyErr, attempts>>

\* if err = session.CommitTransaction(sessionContext); err != nil { panic(err) };
\* Println(result.InsertedID); return nil
PodcastCommit ==
    /\ sample = "txPodcast" /\ pc = "commit"
    /\ \E reply \in Replies :
        /\ Track("CommitTransaction", reply, DriverErr(reply))
        /\ IF reply = "ok"
           THEN /\ podcasts' = podcasts \cup txBuf
                /\ txn' = "committed"
                /\ out' = Append(out, [insertedID |-> insertedID])
                /\ bodyErr' = Nil
                /\ Goto("afterBody")
           ELSE /\ txn' = "commitFailed"
                /\ PanicMain(DriverErr(reply))
                /\ UNCHANGED <<podcasts, out, bodyErr>>
    /\ txBuf' = {}
    /\ UNCHANGED <<sample, runVars, err, episodes, exists, validator, curVars, csVars,
                   session, attempts>>

\* err = mongo.WithSession(...) returned what the body returned, nil;
\* session.EndSession(context.Background()); main returns
PodcastAfterBody ==
    /\ sample = "txPodcast" /\ pc = "afterBody"
    /\ err' = bodyErr
    /\ session' = "ended"
    /\ ReturnMain
    /\ UNCHANGED <<sample, runVars, out, dbVars, trackVars, curVars, csVars,
                   txn, txBuf, bodyErr, attempts>>

\* ------------------------------------------------------------ another run
\* a transaction sample has ended and a transaction sample is started again,
\* on the database as the earlier runs left it
RunAgain ==
    /\ sample \in TxSamples
    /\ exit # "running"
    /\ runs < MaxRuns
    /\ Cardinality(Ids \ UsedIds) >= 2
    /\ sample' \in TxSamples
    /\ runs' = runs + 1
    /\ episodes0' = episodes
    /\ pc' = "connect"
    /\ exit' = "running"
    /\ exitErr' = Nil
    /\ err' = Nil
    /\ out' = <<>>
    /\ conn' = "none"
    /\ failed' = Nil
    /\ lateCalls' = {}
    /\ lastReply' = "none"
    /\ insertedID' = 0
    /\ session' = "none"
    /\ txn' = "none"
    /\ txBuf' = {}
    /\ bodyErr' = Unset
    /\ attempts' = 0
    /\ UNCHANGED <<ctxExpired, dbVars, cursor, csVars>>

Next ==
    \/ DeadlineExpires
    \/ Connect
    \/ Creating1InsertOne
    \/ Creating1InsertMany
    \/ Creating2InsertOne
    \/ Creating2InsertMany
    \/ RetrievingFindOne
    \/ RetrievingFind
    \/ RetrievingLoop
    \/ RetrievingLoopEnd
    \/ RetrievingFindSorted
    \/ RetrievingLoopSorted
    \/ RetrievingLoopSortedEnd
    \/ MainReturn
    \/ DeletingDeleteOne
    \/ DeletingDeleteMany
    \/ DeletingDropPodcasts
    \/ DeletingDropEpisodes
    \/ UpdatingUpdateOne
    \/ UpdatingUpdateManyAuthor
    \/ UpdatingUpdateManyWebsite
    \/ UpdatingReplaceOne
    \/ AggregationMatchGroup
    \/ AggregationAllInfo
    \/ AggregationLookup
    \/ AggregationAllLoaded
    \/ AggregationLookupStruct
    \/ AggregationAllLoadedStruct
    \/ ChangeStreamWatch
    \/ ChangeStreamAdd
    \/ ChangeStreamGo
    \/ WriterOp
    \/ FeedEnds
    \/ IterateNext
    \/ IterateNextFalse
    \/ IterateDecode
    \/ IterateAfterLoop
    \/ IterateDeferDone
    \/ IterateDeferClose
    \/ StartSession
    \/ ManualStartTransaction
    \/ ManualInsertFirst
    \/ ManualInsertSecond
    \/ ManualCommit
    \/ ManualAfterBody
    \/ WithTransactionBegin
    \/ WithTransactionInsertFirst
    \/ WithTransactionInsertSecond
    \/ WithTransactionCommit
    \/ WithTransactionAbort
    \/ WithTransactionAfter
    \/ PodcastStartSession
    \/ PodcastStartTransaction
    \/ PodcastInsertOne
    \/ PodcastCommit
    \/ PodcastAfterBody
    \/ RunAgain

Spec == Init /\ [][Next]_vars

\* ------------------------------------------------------------------ claims
Done == exit # "running"

\* C1: in both change-stream samples the counter main waits on is the one the
\* iteration function decrements: once the function has returned (its deferred
\* Done has run), main's counter is zero, so main's Wait returns.
C1_DoneEmptiesMainWaitGroup ==
    (sample \in ChangeStreamSamples /\ bg = "done" /\ bgPanic = Nil) => mainWG = 0

\* the episodes visible in the collection that this run's transaction body wrote
BodyTitles == {TxEpisode1.title, TxEpisode2(0).title}
BodyDocs == {d \in episodes \ episodes0 : d.title \in BodyTitles}

\* C2: of the two documents a transaction body writes, the episodes collection
\* shows both or neither, in every state; and when the second insert was
\* rejected by the validation rule it shows neither, the first one included.
C2_BothOrNeither ==
    sample \in TxSamples =>
        /\ Cardinality(BodyDocs) \in {0, 2}
        /\ {d.title : d \in BodyDocs} \in {{}, BodyTitles}
        /\ (failed = ValidationErr => BodyDocs = {})

\* C2 witness: the manual form ended after its first insert succeeded (its id
\* was printed) and its second was rejected by the validation rule.
C2_Witness ==
    /\ sample = "txManual" /\ Done
    /\ validator /\ failed = ValidationErr
    /\ Len(out) = 1
    /\ BodyDocs = {}

\* C3: when a transaction sample ends, a transaction that was started is
\* committed or aborted; it is committed exactly when the body returned no
\* error; and when the body returned an error, the transaction is aborted and
\* the process ends with the body's error.
C3_CommitXorAbort ==
    (sample \in TxSamples /\ Done /\ txn # "none") =>
        /\ txn \in {"committed", "aborted"}
        /\ (txn = "committed" <=> bodyErr = Nil)
        /\ (bodyErr \notin {Nil, Unset} => txn = "aborted" /\ exitErr = bodyErr)

\* C4: outside the transaction samples (whose abort and retry are their own
\* branch), no driver call is issued after a driver call returned an error, and
\* a process that has ended after such an error ended with that very error.
C4_FirstErrorTerminates ==
    sample \notin TxSamples =>
        /\ lateCalls = {}
        /\ (Done /\ failed # Nil => exit \in {"fatal", "panic"} /\ exitErr = failed)

\* the writes whose events the watcher is meant to print
IsLongInsert(op) == op.kind = "insert" /\ op.duration > GtDuration
LongInserts == SelectSeq(oplog, IsLongInsert)

\* C5: what the watcher has printed is, in order and without repetition, a
\* prefix of the inserts with duration > 30 made since Watch; every printed
\* event is such an insert (never a replace, never an insert with duration
\* <= 30); and when the watcher is idle on a healthy feed, it has printed all.
C5_OnlyLongInserts ==
    sample \in ChangeStreamSamples =>
        /\ Len(out) <= Len(LongInserts)
        /\ \A i \in 1..Len(out) :
            /\ out[i].operationType = "insert"
            /\ out[i].fullDocument.duration > GtDuration
            /\ out[i].fullDocument.duration = LongInserts[i].duration
        /\ (bg = "next" /\ stream.queue = <<>> /\ stream.err = Nil)
               => Len(out) = Len(LongInserts)

\* C5 witness: an event was printed although a replace with duration > 30 and
\* an insert with duration <= 30 were made as well.
C5_Witness ==
    /\ sample \in ChangeStreamSamples
    /\ Len(out) = 1
    /\ \E i \in 1..Len(oplog) : oplog[i].kind = "replace" /\ oplog[i].duration > GtDuration
    /\ \E i \in 1..Len(oplog) : oplog[i].kind = "insert" /\ oplog[i].duration <= GtDuration

\* C6: after InsertOne returned an InsertedID, a query of the collection by
\* that id yields exactly one document: the inserted one plus the _id field.
C6_FindByInsertedID ==
    (sample = "creating1" /\ insertedID # 0) =>
        Find(podcasts, [_id |-> insertedID]) = {WithID(PodcastDoc, insertedID)}

\* C6 witness: the insert was made into a collection that held other documents.
C6_Witness ==
    /\ sample = "creating1" /\ insertedID # 0
    /\ Cardinality(podcasts) = 3

\* what the first loop of the retrieving sample printed (after the podcast)
PrintedByFilter == Tail(out)

\* C7: when the loop over the duration = 25 query is over, every printed
\* episode has duration 25 and every episode with duration 25 was printed once.
C7_PrintsExactlyDuration25 ==
    (sample = "retrieving" /\ pc = "findSorted") =>
        /\ \A i \in 1..Len(PrintedByFilter) :
            /\ "duration" \in DOMAIN PrintedByFilter[i]
            /\ PrintedByFilter[i]["duration"] = FilterDuration
        /\ \A d \in Find(episodes, [duration |-> FilterDuration]) :
            Cardinality({i \in 1..Len(PrintedByFilter) :
                /\ "_id" \in DOMAIN PrintedByFilter[i]
                /\ PrintedByFilter[i]["_id"] = d["_id"]}) = 1

\* the errors of a request that was not served
RequestErrs == {NetErr, DeadlineExceeded}

\* C8: a Drop of a collection that does not exist returns nil and is not
\* fatal, so the deleting sample ends fatally only because a request failed,
\* never because a collection was missing.
C8_DropMissingIsNil ==
    sample = "deleting" =>
        /\ (lastReply = NamespaceNotFound => err = Nil /\ exit # "fatal")
        /\ (exit = "fatal" => exitErr \in RequestErrs)

\* C8 witness: the sample ran to its end although the last collection it
\* dropped did not exist.
C8_Witness ==
    /\ sample = "deleting" /\ exit = "ok"
    /\ lastReply = NamespaceNotFound

\* C9: a change-stream sample launches one goroutine, no more, and once it is
\* launched only that goroutine uses the stream.
C9_OneTaskOwnsStream ==
    sample \in ChangeStreamSamples =>
        /\ spawned <= 1
        /\ (pc = "wait" \/ bg # "none" => spawned = 1)
        /\ (spawned = 0 => bg = "none")
        /\ streamAcc \subseteq {"bg"}

\* C9 witness: the goroutine ran to its end, using the stream, while main was
\* blocked in Wait.
C9_Witness ==
    /\ sample \in ChangeStreamSamples
    /\ pc = "wait" /\ bg = "done" /\ spawned = 1
    /\ streamAcc = {"bg"} /\ stream.closes = 1

\* C10: in the sample that builds a cancellable context, the context is never
\* cancelled, and the loop is left only because the feed was closed or because
\* the feed (its Next or its Decode) returned an error.
C10_NeverCancelled ==
    sample = "changeStreamCtx" =>
        /\ ~ctxCancelled
        /\ loopExit \in {"none", "closed", "error", "decodeError"}

\* C10 witness: the loop of that sample was left because the feed was closed.
C10_Witness ==
    /\ sample = "changeStreamCtx"
    /\ loopExit = "closed" /\ bg = "done"

\* C11: once the connection is established, no driver call of a sample fails
\* because the ten-second deadline has passed: no reply after the connect is
\* the context's deadline error, and no cursor is ended by it.
C11_DeadlineBoundsConnectOnly ==
    conn # "none" =>
        /\ lastReply # DeadlineExceeded
        /\ failed # DeadlineExceeded
        /\ cursor.err # DeadlineExceeded

\* C12: with the validation rule installed, every episode visible in the
\* collection has duration >= 2, in every state of every run of a transaction
\* sample, whatever runs came before and however they ended.
C12_VisibleDurationAtLeastTwo ==
    (sample \in TxSamples /\ validator) =>
        \A d \in episodes : "duration" \in DOMAIN d /\ d["duration"] >= MinDuration

\* C12 witness: a second run has ended on the validation error and left nothing,
\* after a first run whose two episodes are visible.
C12_Witness ==
    /\ sample \in TxSamples /\ validator
    /\ runs = 2 /\ Done /\ failed = ValidationErr
    /\ episodes = episodes0
    /\ \E d \in episodes : d.title = TxEpisode2(0).title

\* the goroutine is inside its loop over the stream
InLoop == bg \in {"next", "decode"}

\* C13: while the iteration function is inside its loop, main has not ended: it
\* is in Wait; and when main has returned, the function has left its loop.
C13_MainOutlivesIteration ==
    sample \in ChangeStreamSamples =>
        /\ (InLoop => exit = "running" /\ pc = "wait")
        /\ (exit = "ok" => bg \in {"afterLoop", "deferDone", "deferClose", "done"})

\* C13 witness: the goroutine is handling an event, after having printed one,
\* while main is in Wait.
C13_Witness ==
    /\ sample \in ChangeStreamSamples
    /\ bg = "decode" /\ pc = "wait" /\ Len(out) >= 1

\* C14: when the podcast transaction sample ends after it started a
\* transaction, the transaction is committed or aborted, and aborted when a
\* call (the InsertOne, the commit) failed.
C14_PodcastTxAbortedOnFailure ==
    (sample = "txPodcast" /\ Done /\ txn # "none") =>
        /\ txn \in {"committed", "aborted"}
        /\ (failed # Nil => txn = "aborted")

\* C15: a process that connected and has ended, by a return, a log.Fatal or a
\* panic, has closed its connection.
C15_ConnectionClosedOnExit ==
    (Done /\ conn # "none") => conn = "disconnected"

\* C16: the count printed after UpdateOne is the number of documents the
\* update changed, and it is zero or one.
C16_PrintsChangedCount ==
    [][(sample = "updating" /\ pc = "start" /\ pc' = "updateMany1") =>
          /\ out'[Len(out')].updated = Cardinality(podcasts' \ podcasts)
          /\ out'[Len(out')].updated \in {0, 1}]_vars

\* what a $set of the fields names does to a collection: matching documents
\* gain or change the named fields only, the others are as they were
SetFrame(before, after, filter, names) ==
    /\ IdsOf(after) = IdsOf(before)
    /\ Cardinality(after) = Cardinality(before)
    /\ \A d \in before : \A e \in after :
        d["_id"] = e["_id"] =>
            IF Matches(d, filter)
            THEN /\ DOMAIN e = (DOMAIN d) \cup names
                 /\ \A k \in (DOMAIN d) \ names : e[k] = d[k]
            ELSE e = d

\* C17: each UpdateMany with $set leaves every document that does not match
\* the title filter as it was and changes, in a matching document, the named
\* fields only; after the second one every matching document has the website.
C17_SetChangesNamedFieldsOnly ==
    [][/\ (sample = "updating" /\ pc = "updateMany1" /\ pc' = "updateMany2") =>
            /\ SetFrame(podcasts, podcasts', [title |-> PolyglotTitle], {"author"})
            /\ \A e \in Find(podcasts', [title |-> PolyglotTitle]) :
                   e["author"] = "Nicolas Raboy"
       /\ (sample = "updating" /\ pc = "updateMany2" /\ pc' = "replaceOne") =>
            /\ SetFrame(podcasts, podcasts', [title |-> PolyglotTitle], {"author", "website"})
            /\ \A e \in Find(podcasts', [title |-> PolyglotTitle]) :
                   /\ e["author"] = "Nic Raboy"
                   /\ e["website"] = "thepolyglotdeveloper.com"]_vars

\* C17 witness: both updates were made on a collection with a matching
\* document that has tags and a document that does not match.
C17_Witness ==
    /\ sample = "updating" /\ pc = "replaceOne"
    /\ \E d \in podcasts :
        /\ d.title = PolyglotTitle /\ "tags" \in DOMAIN d
        /\ d["website"] = "thepolyglotdeveloper.com"
    /\ Pod6 \in podcasts

\* C18: a ReplaceOne that succeeds changes nothing when no document has author
\* 'Nic Raboy'; otherwise it takes one such document away and puts in its place
\* the document of that _id with the replacement's title and author and no
\* other field, and every other document is as it was.
C18_ReplaceOneFrame ==
    [][(sample = "updating" /\ pc = "replaceOne" /\ exit' = "ok") =>
          \/ /\ Find(podcasts, [author |-> "Nic Raboy"]) = {}
             /\ podcasts' = podcasts
          \/ \E d \in Find(podcasts, [author |-> "Nic Raboy"]) :
               /\ podcasts \ podcasts' = {d}
               /\ podcasts' \ podcasts =
                    {[_id |-> d["_id"], title |-> "The Nic Raboy Show",
                      author |-> "Nicolas Raboy"]}]_vars

\* C18 witness: one document was replaced although several had the author, and
\* the others still have their website.
C18_Witness ==
    /\ sample = "updating" /\ exit = "ok"
    /\ out[Len(out)] = [replaced |-> 1]
    /\ Cardinality(Find(podcasts, [author |-> "Nic Raboy"])) >= 2
    /\ \E d \in podcasts : d.title = "The Nic Raboy Show" /\ DOMAIN d = {"_id", "title", "author"}

\* C19: a DeleteOne that succeeds removes no document or one, which has the
\* filtered title, and prints that number; a DeleteMany that succeeds removes
\* the episodes whose duration is 25, all of them and no other.
C19_DeleteOneAtMostOne ==
    [][/\ (sample = "deleting" /\ pc = "start" /\ pc' = "deleteMany") =>
            /\ podcasts' \subseteq podcasts
            /\ Cardinality(podcasts \ podcasts') \in {0, 1}
            /\ out'[Len(out')].deleted = Cardinality(podcasts \ podcasts')
            /\ \A d \in podcasts \ podcasts' : d.title = PolyglotTitle
            /\ (podcasts' = podcasts => \A d \in podcasts : d.title # PolyglotTitle)
       /\ (sample = "deleting" /\ pc = "deleteMany" /\ pc' = "dropPodcasts") =>
            /\ episodes' = {e \in episodes : e["duration"] # FilterDuration}
            /\ out'[Len(out')].deleted = Cardinality(episodes \ episodes')]_vars

\* C19 witness: of two podcasts with the filtered title one was deleted and one
\* is left, and two episodes of duration 25 were deleted while the third stays.
C19_Witness ==
    /\ sample = "deleting" /\ pc = "dropPodcasts"
    /\ out = <<[deleted |-> 1], [deleted |-> 2]>>
    /\ \E d \in podcasts : d.title = PolyglotTitle
    /\ episodes = {Ep4}

\* C20: the sorted query's result is the set of episodes with duration > 24;
\* each episode the loop prints has such a duration, which is not below that of
\* any episode still to come; and the loop ends when none is left to print.
C20_SortedPrintsDescending ==
    [][/\ (sample = "retrieving" /\ pc = "findSorted" /\ pc' = "loopSorted") =>
            {cursor'.rest[i] : i \in DOMAIN cursor'.rest}
                = {e \in episodes : e["duration"] > SortGtDuration}
       /\ (sample = "retrieving" /\ pc = "loopSorted" /\ out' # out) =>
            /\ "duration" \in DOMAIN out'[Len(out')]
            /\ out'[Len(out')]["duration"] > SortGtDuration
            /\ \A i \in DOMAIN cursor'.rest :
                   out'[Len(out')]["duration"] >= cursor'.rest[i]["duration"]
       /\ (sample = "retrieving" /\ pc = "loopSorted" /\ pc' = "return") =>
            cursor.rest = <<>>]_vars

\* the elements of a printed list
Elems(s) == {s[i] : i \in DOMAIN s}

\* the episodes of the podcast the first pipeline is about
OfPodcast == {e \in episodes : "podcast" \in DOMAIN e /\ e["podcast"] = AggregationPodcastId}

\* C21: the list the sample prints first has at most one group; when no
\* episode has the podcast id it is empty, otherwise its one group has the
\* podcast id as _id and as total the sum of the durations of the episodes with
\* that podcast id, and of no other.
C21_OneGroupWithTotal ==
    (sample = "aggregation" /\ Len(out) >= 1) =>
        /\ Len(out[1]) <= 1
        /\ (OfPodcast = {} <=> out[1] = <<>>)
        /\ \A g \in Elems(out[1]) :
            /\ g["_id"] = AggregationPodcastId
            /\ g["total"] = SumDuration(OfPodcast)

\* C21 witness: the total 57 of the podcast's two episodes (25 and 32) was
\* printed while an episode of another podcast was in the collection.
C21_Witness ==
    /\ sample = "aggregation" /\ Len(out) >= 1
    /\ out[1] = <<[_id |-> AggregationPodcastId, total |-> 57]>>
    /\ Ep5 \in episodes

\* the episodes whose podcast reference is the _id of a podcast
Referring == {e \in episodes : \E p \in podcasts : p["_id"] = e["podcast"]}

\* a list has one result for each referring episode, and no other result
OnePerPair(list) ==
    /\ Len(list) = Cardinality(Referring)
    /\ {r["_id"] : r \in Elems(list)} = IdsOf(Referring)

\* C22: the lists the sample prints second and third have one result for each
\* episode whose podcast reference is the _id of a podcast, and none for any
\* other episode; a result of the second list is the episode with the referred
\* podcast document in place of the reference, a result of the third list has
\* the episode's _id and an embedded podcast with the referred _id.
C22_OneResultPerPair ==
    /\ (sample = "aggregation" /\ Len(out) >= 2) =>
          /\ OnePerPair(out[2])
          /\ \A r \in Elems(out[2]) : \E e \in episodes :
                /\ r["podcast"] \in podcasts
                /\ r["podcast"]["_id"] = e["podcast"]
                /\ DOMAIN r = DOMAIN e
                /\ \A k \in (DOMAIN e) \ {"podcast"} : r[k] = e[k]
    /\ (sample = "aggregation" /\ Len(out) >= 3) =>
          /\ OnePerPair(out[3])
          /\ \A r \in Elems(out[3]) : \E e \in episodes :
                /\ r["_id"] = e["_id"]
                /\ r["podcast"]["_id"] = e["podcast"]
                /\ \E p \in podcasts : p["_id"] = r["podcast"]["_id"] /\ p.title = r["podcast"].title

\* C22 witness: all three lists were printed; the two episodes of the podcast
\* in the collection are in them, the episode of a missing podcast is not.
C22_Witness ==
    /\ sample = "aggregation" /\ exit = "ok" /\ Len(out) = 3
    /\ episodes = {Ep3, Ep4, Ep5} /\ podcasts = {Pod1}
    /\ Len(out[2]) = 2 /\ Len(out[3]) = 2

\* C23: when a creating sample has ended normally, every episode it inserted
\* has as podcast the _id of a document of the podcasts collection, and that
\* document is the podcast the sample inserts.
C23_EpisodesReferenceInsertedPodcast ==
    (sample \in {"creating1", "creating2"} /\ exit = "ok") =>
        \A e \in episodes \ episodes0 :
            \E p \in podcasts : p["_id"] = e["podcast"] /\ p = WithID(PodcastDoc, e["podcast"])

\* C24: when the WithTransaction sample has ended normally, the collection
\* holds what it held before and exactly two more documents, the body's first
\* and second episode, however often the body was run.
C24_ExactlyOneBodyCommitted ==
    (sample = "txWith" /\ exit = "ok") =>
        /\ episodes0 \subseteq episodes
        /\ Cardinality(episodes \ episodes0) = 2
        /\ \E a, b \in episodes \ episodes0 :
            /\ a.title = TxEpisode1.title /\ a.duration = FirstDuration
            /\ b.title = TxEpisode2(0).title /\ b.duration = WithTxSecondDuration

\* C24 witness: the sample ended normally after the body was run twice.
C24_Witness ==
    /\ sample = "txWith" /\ exit = "ok"
    /\ attempts = 2
    /\ txn = "committed"

\* C25: when the loop of a change-stream sample was left because the feed
\* failed and the iteration function is over, the process has ended by a panic
\* with the feed's error.
C25_FeedErrorTerminates ==
    (sample \in ChangeStreamSamples /\ loopExit = "error" /\ bg = "done") =>
        /\ exit = "panic"
        /\ exitErr = stream.err

\* C26: the iteration function calls Done on its waitGroup once and Close on
\* the stream once, Done first, on every way out of the loop: before its
\* deferred calls run the counter is 1 and the stream not closed, between them
\* the counter is 0 and the stream not closed, after them the counter is 0 and
\* the stream closed once.
C26_DoneThenCloseOnce ==
    sample \in ChangeStreamSamples =>
        /\ (bg \in {"next", "decode", "afterLoop", "deferDone"} => bgWG = 1 /\ stream.closes = 0)
        /\ (bg = "deferClose" => bgWG = 0 /\ stream.closes = 0)
        /\ (bg = "done" => bgWG = 0 /\ stream.closes = 1)

\* C26 witness: the function is over after a Decode error made it panic.
C26_Witness ==
    /\ sample \in ChangeStreamSamples
    /\ bg = "done" /\ loopExit = "decodeError" /\ exit = "panic"
    /\ bgWG = 0 /\ stream.closes = 1

\* the events the feed delivers, in order
Feed == [i \in 1..Len(LongInserts) |-> ChangeEvent(LongInserts[i])]

\* the event Next has made current, if any, and the events still queued
Pending == (IF stream.cur = NoEvent THEN <<>> ELSE <<stream.cur>>) \o stream.queue

\* C27: the printed events, the event being handled and the events not yet
\* fetched are, in this order, the events of the feed, each once; only an
\* event whose Decode failed is missing, and it ended the loop.  An event is
\* printed only by the loop, one at a time, the stream being open.
C27_EachEventOnceInOrder ==
    /\ [](sample \in ChangeStreamSamples =>
            IF loopExit = "decodeError"
            THEN /\ Len(out) + 1 + Len(stream.queue) = Len(Feed)
                 /\ \A i \in 1..Len(out) : out[i] = Feed[i]
                 /\ \A i \in 1..Len(stream.queue) : stream.queue[i] = Feed[Len(out) + 1 + i]
            ELSE out \o Pending = Feed)
    /\ [][(sample \in ChangeStreamSamples /\ out' # out) =>
            /\ bg = "decode" /\ loopExit = "none" /\ stream.closes = 0
            /\ out' = Append(out, stream.cur)]_vars

\* C27 witness: two different events were printed, and the function is over.
C27_Witness ==
    /\ sample \in ChangeStreamSamples
    /\ Len(out) = 2 /\ out[1] # out[2]
    /\ bg = "done"

\* C28: when the manual form has ended after a step of the body failed, the
\* abort it called met a transaction in progress and aborted it, and main
\* panicked with that step's error, not with an error of AbortTransaction.
C28_AbortKeepsOriginalFailure ==
    (sample = "txManual" /\ Done /\ bodyErr \notin {Nil, Unset}) =>
        /\ txn = "aborted"
        /\ exit = "panic"
        /\ exitErr # AbortErr
        /\ exitErr = bodyErr

\* C29: when a transaction sample has ended after StartSession succeeded, the
\* session is ended.
C29_SessionEndedOnEveryPath ==
    (sample \in TxSamples \cup {"txPodcast"} /\ Done /\ session # "none") =>
        session = "ended"

====
